---- MODULE Spec2Model ----
(***************************************************************************)
(* Customer dimension pipeline (bronze -> silver -> gold -> shared          *)
(* dimension) of consolidated_pipeline/2_dimension_data_processing/         *)
(* 1_customer_data_processing.py, one action per state-changing notebook    *)
(* cell.                                                                    *)
(*                                                                          *)
(* A column value is an option: Null is <<>>, a present value v is <<v>>.   *)
(* A DataFrame or a table is a sequence of rows (records); duplicates are   *)
(* kept, so a step that multiplies rows is visible.                         *)
(***************************************************************************)
EXTENDS Integers, Sequences, FiniteSets, TLC

\* ------------------------------------------------------------------ bounds

\* Most data rows a CSV extract holds when its rows come from NarrowRows.
MaxRows == 2
\* Most executions of the notebook in one behaviour.
MaxRuns == 2

\* ------------------------------------------------------------- column values

Null == <<>>
Some(v) == <<v>>
IsNull(c) == c = <<>>
Val(c) == c[1]
\* F.coalesce(a, b): the first non-null argument.
Coalesce(a, b) == IF IsNull(a) THEN b ELSE a

\* ------------------------------------------------------------ string functions

Uppers == "ABCDEFGHIJKLMNOPQRSTUVWXYZ"
Lowers == "abcdefghijklmnopqrstuvwxyz"
Char(s, i) == SubSeq(s, i, i)
IndexIn(alphabet, c) ==
    IF \E i \in 1..Len(alphabet) : Char(alphabet, i) = c
    THEN CHOOSE i \in 1..Len(alphabet) : Char(alphabet, i) = c
    ELSE 0
ToUpper(c) == IF IndexIn(Lowers, c) = 0 THEN c ELSE Char(Uppers, IndexIn(Lowers, c))
ToLower(c) == IF IndexIn(Uppers, c) = 0 THEN c ELSE Char(Lowers, IndexIn(Uppers, c))

\* F.trim: strips the space character from both ends of the string.
RECURSIVE LTrim(_)
LTrim(s) == IF Len(s) > 0 /\ Char(s, 1) = " " THEN LTrim(Tail(s)) ELSE s
RECURSIVE RTrim(_)
RTrim(s) ==
    IF Len(s) > 0 /\ Char(s, Len(s)) = " " THEN RTrim(SubSeq(s, 1, Len(s) - 1)) ELSE s
Trim(s) == RTrim(LTrim(s))

\* F.initcap: lower-cases the string, then upper-cases the first character
\* and every character that follows a space.
RECURSIVE InitcapFrom(_, _)
InitcapFrom(s, i) ==
    IF i > Len(s) THEN ""
    ELSE (IF i = 1 \/ Char(s, i - 1) = " "
          THEN ToUpper(ToLower(Char(s, i)))
          ELSE ToLower(Char(s, i))) \o InitcapFrom(s, i + 1)
Initcap(s) == InitcapFrom(s, 1)

\* cast("string") of an integral column: the decimal digits.
RECURSIVE Digits(_)
Digits(n) ==
    IF n < 10 THEN Char("0123456789", n + 1)
    ELSE Digits(n \div 10) \o Char("0123456789", (n % 10) + 1)
CastString(n) == IF n < 0 THEN "-" \o Digits(0 - n) ELSE Digits(n)

\* F.concat_ws(sep, a, b): joins the non-null arguments with sep; never null.
ConcatWs(sep, a, b) ==
    IF IsNull(a) /\ IsNull(b) THEN Some("")
    ELSE IF IsNull(a) THEN b
    ELSE IF IsNull(b) THEN a
    ELSE Some(Val(a) \o sep \o Val(b))

\* ------------------------------------------------------- static reference data

city_mapping ==
    ("Bengaluruu" :> "Bengaluru") @@ ("Bangalore" :> "Bengaluru") @@
    ("Hyderbadd" :> "Hyderabad") @@ ("Hyderbad" :> "Hyderabad") @@
    ("NewDelhi" :> "New Delhi") @@ ("NewDheli" :> "New Delhi") @@
    ("NewDelhee" :> "New Delhi")

allowed == {"Bengaluru", "Hyderabad", "New Delhi"}

customer_city_fix ==
    (789403 :> "New Delhi") @@ (789420 :> "Bengaluru") @@
    (789521 :> "Hyderabad") @@ (789603 :> "Hyderabad")

\* spark.createDataFrame over the items of customer_city_fix, in dict order.
FixKeys == <<789403, 789420, 789521, 789603>>
df_fix ==
    [i \in 1..Len(FixKeys) |->
        [customer_id |-> Some(FixKeys[i]), fixed_city |-> Some(customer_city_fix[FixKeys[i]])]]

\* Schema names set by the utilities notebook (%run at line 7).
bronze_schema == "bronze"
silver_schema == "silver"
gold_schema == "gold"

\* ------------------------------------------------------------------ table names

BronzeTable(cat, src) == cat \o "." \o bronze_schema \o "." \o src
SilverTable(cat, src) == cat \o "." \o silver_schema \o "." \o src
GoldTable(cat, src) == cat \o "." \o gold_schema \o ".sb_dim_" \o src
SharedTable == "fmcg.gold.dim_customers"
MergeSourceTable == "fmcg.gold.sb_dim_customers"
base_path(src) == "s3://sportsbar-enge/" \o src \o "/*.csv"

\* ------------------------------------------------------------------ inputs

Catalogs == {"fmcg", "dev"}
Sources == {"customers", "products"}

Ids == {Null, Some(789420), Some(7)}
NarrowRows ==
    [customer_id : Ids,
     customer_name : {Some(" john smith")},
     city : {Some("Bangalore"), Some("Mumbai")}]
WideNames == {Null, Some(""), Some("  john  smith "), Some("ACME corp")}
WideCities ==
    {Null} \cup
    {Some(c) : c \in (DOMAIN city_mapping) \cup allowed \cup
                     {"", "bangalore", "Bengaluru ", "NEW DELHI", "Mumbai"}}
WideRows == [customer_id : Ids, customer_name : WideNames, city : WideCities]

FileSizes == {1024}
CsvFile(src, rows, size) ==
    [file_name |-> src \o ".csv", file_size |-> size, rows |-> rows]
\* The data rows a CSV extract may hold: up to MaxRows rows of NarrowRows, or
\* one row of WideRows.
RowLists ==
    UNION {[1..n -> NarrowRows] : n \in 0..MaxRows} \cup {<<r>> : r \in WideRows}
\* What the glob of base_path(src) may match: no file, or one file.
Matches(src) ==
    {<<>>} \cup {<<CsvFile(src, rows, size)>> : rows \in RowLists, size \in FileSizes}

\* The shared dimension table before the first run: one row per customer_code.
SharedRow(code, customer, channel) ==
    [customer_code |-> Some(code), customer |-> Some(customer),
     market |-> Some("India"), platform |-> Some("Sport Bar"), channel |-> Some(channel)]
SharedInit ==
    {<<>>,
     <<SharedRow("789420", "Old Name-Bengaluru", "Retention"),
       SharedRow("42", "Other Source-Hyderabad", "Retention")>>}

\* ------------------------------------------------------------------- state

VARIABLES
    csv,                 \* object store: path pattern -> the files matching it
    tables,              \* metastore: table name -> rows, for the tables that exist
    pc,                  \* the next cell of the notebook to execute
    runs,                \* executions of the notebook started so far
    catalog, data_source,
    df, df_bronze, df_silver, df_gold, df_child_customers

vars ==
    <<csv, tables, pc, runs, catalog, data_source,
      df, df_bronze, df_silver, df_gold, df_child_customers>>

frames == <<df, df_bronze, df_silver, df_gold, df_child_customers>>
params == <<catalog, data_source>>

\* saveAsTable in overwrite mode: the table holds exactly the written rows.
SaveAsTable(name, rows) ==
    [n \in (DOMAIN tables) \cup {name} |-> IF n = name THEN rows ELSE tables[n]]

Exists(name) == name \in DOMAIN tables

\* A fresh metastore holding only the shared dimension table; the object store
\* has files under at most one of the path patterns.
Init ==
    /\ csv \in {[p \in {base_path(s) : s \in Sources} |->
                    IF p = base_path(t) THEN m ELSE <<>>] :
                  t \in Sources, m \in UNION {Matches(u) : u \in Sources}}
    /\ \A s \in Sources : csv[base_path(s)] \in Matches(s)
    /\ tables \in {(SharedTable :> t) : t \in SharedInit}
    /\ pc = "widgets"
    /\ runs = 0
    /\ catalog = "fmcg"
    /\ data_source = "customers"
    /\ df = <<>> /\ df_bronze = <<>> /\ df_silver = <<>>
    /\ df_gold = <<>> /\ df_child_customers = <<>>

\* ---------------------------------------------------------------- ingestion

\* Cells 15-31: the widgets give the run its catalog and data_source.
Widgets ==
    /\ pc \in {"widgets", "done", "failed"}
    /\ runs < MaxRuns
    /\ runs' = runs + 1
    /\ \E c \in Catalogs, s \in Sources : catalog' = c /\ data_source' = s
    /\ df' = <<>> /\ df_bronze' = <<>> /\ df_silver' = <<>>
    /\ df_gold' = <<>> /\ df_child_customers' = <<>>
    /\ pc' = "read_csv"
    /\ UNCHANGED <<csv, tables>>

\* The rows of one file with the provenance columns of lines 41-42.
LoadFile(f, now) ==
    [i \in 1..Len(f.rows) |->
        [customer_id |-> f.rows[i].customer_id,
         customer_name |-> f.rows[i].customer_name,
         city |-> f.rows[i].city,
         read_timestamp |-> Some(now),
         file_name |-> Some(f.file_name),
         file_size |-> Some(f.file_size)]]

RECURSIVE LoadAll(_, _)
LoadAll(files, now) ==
    IF files = <<>> THEN <<>>
    ELSE LoadFile(Head(files), now) \o LoadAll(Tail(files), now)

\* Mutation: a path matching no file loads as an empty frame.
ReadCsvEmptyOnMissing ==
    /\ pc = "read_csv"
    /\ pc' = "write_bronze"
    /\ df' = LoadAll(csv[base_path(data_source)], runs)
    /\ UNCHANGED <<csv, tables, runs, params, df_bronze, df_silver, df_gold,
                   df_child_customers>>

\* Cell 36-43: load() raises when the path matches no file.
ReadCsv ==
    /\ pc = "read_csv"
    /\ IF csv[base_path(data_source)] = <<>>
       THEN pc' = "failed" /\ df' = df
       ELSE pc' = "write_bronze" /\ df' = LoadAll(csv[base_path(data_source)], runs)
    /\ UNCHANGED <<csv, tables, runs, params, df_bronze, df_silver, df_gold,
                   df_child_customers>>

\* Cell 52-56.
WriteBronze ==
    /\ pc = "write_bronze"
    /\ tables' = SaveAsTable(BronzeTable(catalog, data_source), df)
    /\ pc' = "read_bronze"
    /\ UNCHANGED <<csv, runs, params, frames>>

\* --------------------------------------------------------------- conformance

\* Cell 65.
ReadBronze ==
    /\ pc = "read_bronze"
    /\ df_bronze' = tables[BronzeTable(catalog, data_source)]
    /\ pc' = "drop_duplicates"
    /\ UNCHANGED <<csv, tables, runs, params, df, df_silver, df_gold,
                   df_child_customers>>

\* The rows of d at the indices in I, in the order of d.
RowsAt(d, I) ==
    LET n == Cardinality(I)
        idx == CHOOSE f \in [1..n -> I] : \A a, b \in 1..n : a < b => f[a] < f[b]
    IN [j \in 1..n |-> d[idx[j]]]

\* Mutation: the duplicates are not dropped.
DropDuplicatesKeepAll(d) == {d}

\* dropDuplicates(["customer_id"]): one row survives per distinct customer_id
\* (null is one value); which one is left to the engine.
DropDuplicatesResults(d) ==
    LET keys == {d[i].customer_id : i \in DOMAIN d}
        picks == {f \in [keys -> DOMAIN d] : \A k \in keys : d[f[k]].customer_id = k}
    IN {RowsAt(d, {f[k] : k \in keys}) : f \in picks}

\* Cell 79-81.
DropDuplicates ==
    /\ pc = "drop_duplicates"
    /\ df_silver' \in DropDuplicatesResults(df_bronze)
    /\ pc' = "trim"
    /\ UNCHANGED <<csv, tables, runs, params, df, df_bronze, df_gold,
                   df_child_customers>>

\* Line 91: trim of a null is null.
TrimName(d) ==
    [i \in DOMAIN d |->
        [d[i] EXCEPT !.customer_name =
            IF IsNull(@) THEN Null ELSE Some(Trim(Val(@)))]]

TrimCell ==
    /\ pc = "trim"
    /\ df_silver' = TrimName(df_silver)
    /\ pc' = "city"
    /\ UNCHANGED <<csv, tables, runs, params, df, df_bronze, df_gold,
                   df_child_customers>>

\* Mutation: the misspelling map is not applied.
ReplaceCitySkipped(c) == c

\* Line 122: replace(city_mapping, subset=["city"]) swaps a value that equals a
\* key of the mapping for the key's value and leaves every other value alone.
ReplaceCity(c) ==
    IF ~IsNull(c) /\ Val(c) \in DOMAIN city_mapping THEN Some(city_mapping[Val(c)]) ELSE c

\* Mutation: the allow-list filter is skipped.
AllowedCityAny(c) == c

\* Lines 125-127.
AllowedCity(c) ==
    IF IsNull(c) THEN Null
    ELSE IF Val(c) \in allowed THEN c
    ELSE Null

NormalizeCity(d) ==
    [i \in DOMAIN d |-> [d[i] EXCEPT !.city = AllowedCity(ReplaceCity(@))]]

\* Cell 105-129.
CityCell ==
    /\ pc = "city"
    /\ df_silver' = NormalizeCity(df_silver)
    /\ pc' = "initcap"
    /\ UNCHANGED <<csv, tables, runs, params, df, df_bronze, df_gold,
                   df_child_customers>>

\* Lines 141-145.
InitcapName(d) ==
    [i \in DOMAIN d |->
        [d[i] EXCEPT !.customer_name =
            IF IsNull(@) THEN Null ELSE Some(Initcap(Val(@)))]]

InitcapCell ==
    /\ pc = "initcap"
    /\ df_silver' = InitcapName(df_silver)
    /\ pc' = "fix"
    /\ UNCHANGED <<csv, tables, runs, params, df, df_bronze, df_gold,
                   df_child_customers>>

\* join(df_fix, on="customer_id", how="left") for one left row: one output
\* row per matching row of fix, or one with a null fixed_city when none
\* matches (a null customer_id matches nothing).
JoinRow(r, fix) ==
    LET m == {j \in DOMAIN fix :
                ~IsNull(r.customer_id) /\ fix[j].customer_id = r.customer_id}
        hits == RowsAt(fix, m)
    IN IF m = {} THEN <<Null>> ELSE [j \in DOMAIN hits |-> hits[j].fixed_city]

\* Mutation: the arguments of coalesce are swapped.
FixedCityOverride(city, fixed_city) == Coalesce(fixed_city, city)

\* Line 187: coalesce("city", "fixed_city"), then fixed_city is dropped.
FixedCity(city, fixed_city) == Coalesce(city, fixed_city)

RECURSIVE FixCity(_, _)
FixCity(d, fix) ==
    IF d = <<>> THEN <<>>
    ELSE LET r == Head(d)
             fc == JoinRow(r, fix)
         IN [j \in DOMAIN fc |-> [r EXCEPT !.city = FixedCity(@, fc[j])]]
            \o FixCity(Tail(d), fix)

\* Cell 182-190.
FixCell ==
    /\ pc = "fix"
    /\ df_silver' = FixCity(df_silver, df_fix)
    /\ pc' = "cast"
    /\ UNCHANGED <<csv, tables, runs, params, df, df_bronze, df_gold,
                   df_child_customers>>

\* Line 196.
CastCustomerId(d) ==
    [i \in DOMAIN d |->
        [d[i] EXCEPT !.customer_id =
            IF IsNull(@) THEN Null ELSE Some(CastString(Val(@)))]]

CastCell ==
    /\ pc = "cast"
    /\ df_silver' = CastCustomerId(df_silver)
    /\ pc' = "derive"
    /\ UNCHANGED <<csv, tables, runs, params, df, df_bronze, df_gold,
                   df_child_customers>>

\* Line 205.
UnknownCity == "Unknow"
Customer(name, city) == ConcatWs("-", name, Coalesce(city, Some(UnknownCity)))

\* Lines 201-211.
DeriveColumns(d) ==
    [i \in DOMAIN d |->
        [customer_id |-> d[i].customer_id,
         customer_name |-> d[i].customer_name,
         city |-> d[i].city,
         read_timestamp |-> d[i].read_timestamp,
         file_name |-> d[i].file_name,
         file_size |-> d[i].file_size,
         customer |-> Customer(d[i].customer_name, d[i].city),
         market |-> Some("India"),
         platform |-> Some("Sport Bar"),
         channel |-> Some("Acquisition")]]

DeriveCell ==
    /\ pc = "derive"
    /\ df_silver' = DeriveColumns(df_silver)
    /\ pc' = "write_silver"
    /\ UNCHANGED <<csv, tables, runs, params, df, df_bronze, df_gold,
                   df_child_customers>>

\* The conformance cells after dropDuplicates, composed.
Conform(d) ==
    DeriveColumns(CastCustomerId(FixCity(InitcapName(NormalizeCity(TrimName(d))), df_fix)))

\* Cell 223-228.
WriteSilver ==
    /\ pc = "write_silver"
    /\ tables' = SaveAsTable(SilverTable(catalog, data_source), df_silver)
    /\ pc' = "read_silver"
    /\ UNCHANGED <<csv, runs, params, frames>>

\* ---------------------------------------------------------------- projection

\* Line 240.
SelectGold(d) ==
    [i \in DOMAIN d |->
        [customer_id |-> d[i].customer_id,
         customer_name |-> d[i].customer_name,
         city |-> d[i].city,
         file_size |-> d[i].file_size,
         customer |-> d[i].customer,
         market |-> d[i].market,
         platform |-> d[i].platform,
         channel |-> d[i].channel]]

\* Cell 237-240.
ReadSilver ==
    /\ pc = "read_silver"
    /\ df_silver' = tables[SilverTable(catalog, data_source)]
    /\ df_gold' = SelectGold(df_silver')
    /\ pc' = "write_gold"
    /\ UNCHANGED <<csv, tables, runs, params, df, df_bronze, df_child_customers>>

\* Cell 244-248.
WriteGold ==
    /\ pc = "write_gold"
    /\ tables' = SaveAsTable(GoldTable(catalog, data_source), df_gold)
    /\ pc' = "read_child"
    /\ UNCHANGED <<csv, runs, params, frames>>

\* --------------------------------------------------------------------- merge

\* Lines 253-259.
SelectChild(d) ==
    [i \in DOMAIN d |->
        [customer_code |-> d[i].customer_id,
         customer |-> d[i].customer,
         market |-> d[i].market,
         platform |-> d[i].platform,
         channel |-> d[i].channel]]

\* Cell 252-259: spark.table raises when the table does not exist.
ReadChild ==
    /\ pc = "read_child"
    /\ IF Exists(MergeSourceTable) /\ Exists(SharedTable)
       THEN /\ df_child_customers' = SelectChild(tables[MergeSourceTable])
            /\ pc' = "merge"
       ELSE /\ df_child_customers' = df_child_customers
            /\ pc' = "failed"
    /\ UNCHANGED <<csv, tables, runs, params, df, df_bronze, df_silver, df_gold>>

\* condition="target.customer_code = source.customer_code": a comparison with
\* a null is not true.
Matched(t, s) ==
    /\ ~IsNull(t.customer_code)
    /\ ~IsNull(s.customer_code)
    /\ t.customer_code = s.customer_code

SourcesOf(t, source) == {j \in DOMAIN source : Matched(t, source[j])}

\* Mutation: the whenNotMatchedInsertAll clause is missing.
MergeUpdateOnly(target, source) ==
    [i \in DOMAIN target |->
        IF SourcesOf(target[i], source) = {} THEN target[i]
        ELSE source[CHOOSE j \in SourcesOf(target[i], source) : TRUE]]

\* whenMatchedUpdateAll: the matched target row takes every source column;
\* whenNotMatchedInsertAll: a source row matching no target row is appended.
MergeResult(target, source) ==
    LET updated ==
            [i \in DOMAIN target |->
                IF SourcesOf(target[i], source) = {} THEN target[i]
                ELSE source[CHOOSE j \in SourcesOf(target[i], source) : TRUE]]
        fresh == {j \in DOMAIN source :
                    \A i \in DOMAIN target : ~Matched(target[i], source[j])}
    IN updated \o RowsAt(source, fresh)

\* The merge raises when several source rows match one target row.
MergeAmbiguous(target, source) ==
    \E i \in DOMAIN target : Cardinality(SourcesOf(target[i], source)) > 1

\* Cell 263-268.
Merge ==
    /\ pc = "merge"
    /\ IF MergeAmbiguous(tables[SharedTable], df_child_customers)
       THEN tables' = tables /\ pc' = "failed"
       ELSE /\ tables' = SaveAsTable(SharedTable,
                            MergeResult(tables[SharedTable], df_child_customers))
            /\ pc' = "done"
    /\ UNCHANGED <<csv, runs, params, frames>>

\* The object store between two runs: the files under a source path go away.
RemoveFiles ==
    /\ pc \in {"done", "failed"}
    /\ runs < MaxRuns
    /\ \E p \in DOMAIN csv : csv[p] # <<>> /\ csv' = [csv EXCEPT ![p] = <<>>]
    /\ UNCHANGED <<tables, pc, runs, params, frames>>

Next ==
    \/ Widgets
    \/ ReadCsv
    \/ WriteBronze
    \/ ReadBronze
    \/ DropDuplicates
    \/ TrimCell
    \/ CityCell
    \/ InitcapCell
    \/ FixCell
    \/ CastCell
    \/ DeriveCell
    \/ WriteSilver
    \/ ReadSilver
    \/ WriteGold
    \/ ReadChild
    \/ Merge
    \/ RemoveFiles

Spec == Init /\ [][Next]_vars

\* ------------------------------------------------------------------- claims

SilverTables ==
    {SilverTable(c, s) : c \in Catalogs, s \in Sources} \cap DOMAIN tables

\* No two rows of d carry the same value in column col (null is one value).
Distinct(d, col) == \A i, j \in DOMAIN d : i # j => d[i][col] # d[j][col]

\* C1: no two rows of a silver table have the same customer_id, whatever the
\* bronze input; the join with the exception table and the cast to string keep
\* the frame free of duplicates too.
C1_SilverCustomerIdUnique ==
    /\ \A t \in SilverTables : Distinct(tables[t], "customer_id")
    /\ pc \in {"cast", "derive", "write_silver"} => Distinct(df_silver, "customer_id")

\* C1 witness: a silver table written from a bronze table that repeats a
\* customer_id, holding a row whose key is in the exception table.
C1_Witness ==
    /\ pc = "read_silver"
    /\ Len(df_bronze) = 2
    /\ df_bronze[1].customer_id = df_bronze[2].customer_id
    /\ df_bronze[1].city # df_bronze[2].city
    /\ df_bronze[1].customer_id = Some(789420)
    /\ Len(tables[SilverTable(catalog, data_source)]) = 1
    /\ tables[SilverTable(catalog, data_source)][1].customer_id = Some("789420")

\* C2: the shared dimension table holds at most one row per customer_code
\* after any number of runs.
C2_SharedCustomerCodeUnique == Distinct(tables[SharedTable], "customer_code")

\* The merge condition as the claim reads it: the two codes are present and equal.
SameCode(a, b) == a # Null /\ b # Null /\ a = b

\* The relation of an upsert by customer_code between the target before (t),
\* the source (s) and the target after (u).
Upserted(t, s, u) ==
    LET unmatched == {j \in DOMAIN s :
                        \A i \in DOMAIN t : ~SameCode(t[i].customer_code, s[j].customer_code)}
    IN /\ Len(u) = Len(t) + Cardinality(unmatched)
       /\ \A i \in DOMAIN t :
            /\ \A j \in DOMAIN s :
                 SameCode(t[i].customer_code, s[j].customer_code) =>
                    /\ u[i].customer_code = t[i].customer_code
                    /\ u[i].customer = s[j].customer
                    /\ u[i].market = s[j].market
                    /\ u[i].platform = s[j].platform
                    /\ u[i].channel = s[j].channel
            /\ (\A j \in DOMAIN s : ~SameCode(t[i].customer_code, s[j].customer_code))
                 => u[i] = t[i]
       /\ \A j \in unmatched :
            Cardinality({k \in (Len(t) + 1)..Len(u) : u[k] = s[j]})
              = Cardinality({k \in unmatched : s[k] = s[j]})

\* C3: a completed merge is an upsert by customer_code: matched shared rows
\* take the source's customer, market, platform and channel, unmatched source
\* rows are appended whole, and the other shared rows are unchanged.
C3_MergeIsUpsert ==
    [][(pc = "merge" /\ pc' = "done") =>
          Upserted(tables[SharedTable], df_child_customers, tables'[SharedTable])]_vars

\* C3 witness: a finished merge that overwrote the row of code 789420, left
\* the row of code 42 alone and inserted the row of code 7.
C3_Witness ==
    /\ pc = "done"
    /\ Len(df_child_customers) = 2
    /\ Len(tables[SharedTable]) = 3
    /\ tables[SharedTable][1].customer_code = Some("789420")
    /\ tables[SharedTable][1].channel = Some("Acquisition")
    /\ tables[SharedTable][2] = SharedRow("42", "Other Source-Hyderabad", "Retention")
    /\ tables[SharedTable][3].customer_code = Some("7")

CityDomain == {Null, Some("Bengaluru"), Some("Hyderabad"), Some("New Delhi")}

\* C4: the city of every silver row is Bengaluru, Hyderabad, New Delhi or
\* null, after the allow-list step and after the exception override alike.
C4_CityDomainClosed ==
    /\ \A t \in SilverTables : \A i \in DOMAIN tables[t] : tables[t][i].city \in CityDomain
    /\ pc \in {"initcap", "fix", "cast", "derive", "write_silver"} =>
          \A i \in DOMAIN df_silver : df_silver[i].city \in CityDomain

\* C4 witness: a silver row whose raw city is outside the allow-list and whose
\* city was filled from the exception table.
C4_Witness ==
    /\ pc = "read_silver"
    /\ Len(df_bronze) = 1
    /\ df_bronze[1].city = Some("Mumbai")
    /\ df_bronze[1].customer_id = Some(789420)
    /\ tables[SilverTable(catalog, data_source)][1].city = Some("Bengaluru")

\* C5: for every silver row with a customer_name, customer is that name, "-",
\* and the row's city, or "Unknown" when the city is null.
C5_CustomerField ==
    \A t \in SilverTables : \A i \in DOMAIN tables[t] :
        LET r == tables[t][i]
        IN r.customer_name # Null =>
              r.customer = Some(r.customer_name[1] \o "-" \o
                                (IF r.city = Null THEN "Unknown" ELSE r.city[1]))

\* C6: the exception table only fills gaps: a city resolved before the join
\* stays, a null city of a listed customer_id becomes the listed city
\* (789420 gives Bengaluru), any other null city stays null.
C6_ExceptionFillsGaps ==
    [][(pc = "fix" /\ pc' = "cast") =>
          /\ Len(df_silver') = Len(df_silver)
          /\ \A i \in DOMAIN df_silver :
               LET id == df_silver[i].customer_id
                   before == df_silver[i].city
                   after == df_silver'[i].city
                   listed == id # Null /\ id[1] \in DOMAIN customer_city_fix
               IN /\ before # Null => after = before
                  /\ (before = Null /\ listed) => after = Some(customer_city_fix[id[1]])
                  /\ (before = Null /\ id = Some(789420)) => after = Some("Bengaluru")
                  /\ (before = Null /\ ~listed) => after = Null]_vars

\* C6 witness: the join has run on a row of customer_id 789420 whose city was
\* already resolved to another city than the listed one.
C6_Witness ==
    /\ pc = "cast"
    /\ Len(df_silver) = 1
    /\ df_silver[1].customer_id = Some(789420)
    /\ df_silver[1].city = Some("Hyderabad")

\* The city normalisation the claim lists, by exact match.
ExpectedCity(c) ==
    CASE c \in {Some("Bangalore"), Some("Bengaluruu"), Some("Bengaluru")} -> Some("Bengaluru")
      [] c \in {Some("Hyderbad"), Some("Hyderbadd"), Some("Hyderabad")} -> Some("Hyderabad")
      [] c \in {Some("NewDheli"), Some("NewDelhee"), Some("NewDelhi"), Some("New Delhi")}
            -> Some("New Delhi")
      [] OTHER -> Null

\* C7: before the exception override, city normalisation maps the seven
\* misspellings to their canonical names, the canonical names to themselves
\* and every other string, and null, to null.
C7_CityNormalisation ==
    [][(pc = "city" /\ pc' = "initcap") =>
          /\ Len(df_silver') = Len(df_silver)
          /\ \A i \in DOMAIN df_silver :
               df_silver'[i] = [df_silver[i] EXCEPT !.city = ExpectedCity(@)]]_vars

\* C7 witness: the normalisation has run on a misspelling.
C7_Witness ==
    /\ pc = "initcap"
    /\ Len(df_bronze) = 1
    /\ df_bronze[1].city = Some("NewDelhee")
    /\ df_silver[1].city = Some("New Delhi")

\* C8: conformance of one bronze snapshot has one result: every execution of
\* the stage on the snapshot writes the same silver rows.
C8_ConformanceDeterministic ==
    pc = "drop_duplicates" =>
        Cardinality({Conform(d) : d \in DropDuplicatesResults(df_bronze)}) = 1

Stage(p) ==
    CASE p \in {"read_csv", "write_bronze"} -> 1
      [] p \in {"read_bronze", "drop_duplicates", "trim", "city", "initcap", "fix",
                "cast", "derive", "write_silver"} -> 2
      [] p \in {"read_silver", "write_gold"} -> 3
      [] p \in {"read_child", "merge"} -> 4
      [] OTHER -> 0

\* C9: a read that matches no file fails the run and leaves every table as
\* it was; a failed run writes nothing more; and a stage runs only on the
\* output the stage before it wrote in the same run.
C9_FailFast ==
    /\ [][/\ (pc = "read_csv" /\ csv[base_path(data_source)] = <<>>) =>
                (pc' = "failed" /\ tables' = tables)
          /\ pc = "failed" => (tables' = tables /\ pc' \in {"failed", "read_csv"})
          /\ (Stage(pc) > 0 /\ Stage(pc') > 0) => Stage(pc') \in {Stage(pc), Stage(pc) + 1}
         ]_vars
    /\ [](/\ Stage(pc) = 2 =>
               /\ Exists(BronzeTable(catalog, data_source))
               /\ tables[BronzeTable(catalog, data_source)] = df
          /\ Stage(pc) = 3 =>
               /\ Exists(SilverTable(catalog, data_source))
               /\ pc = "write_gold" => tables[SilverTable(catalog, data_source)] = df_silver
          /\ Stage(pc) = 4 =>
               /\ Exists(GoldTable(catalog, data_source))
               /\ tables[GoldTable(catalog, data_source)] = df_gold)

\* C9 witness: a run failed at the read while the bronze table of its source,
\* written by an earlier run, still holds rows.
C9_Witness ==
    /\ pc = "failed"
    /\ csv[base_path(data_source)] = <<>>
    /\ Exists(BronzeTable(catalog, data_source))
    /\ Len(tables[BronzeTable(catalog, data_source)]) > 0

\* C10: the merge reads the table the projection of the same run wrote,
\* <catalog>.gold.sb_dim_<data_source>, and upserts exactly its rows.
C10_MergeReadsProjection ==
    /\ pc \in {"read_child", "merge"} => MergeSourceTable = GoldTable(catalog, data_source)
    /\ pc = "merge" => df_child_customers = SelectChild(df_gold)

====
